---- MODULE Spec2Model ----
(***************************************************************************)
(* A model of BubbleDive SparkMap (src/app.py): tooltip truncation, tree   *)
(* normalisation and flattening, the click handler and the label wrapping  *)
(* of the rendered map, and the main script's session-state caching.       *)
(*                                                                         *)
(* Text is a sequence of symbols (one-character strings, or, for topics    *)
(* and session keys, uniquely decodable tokens).  Python's None / JSON     *)
(* null and a missing dict key are the two reserved values None, Absent.   *)
(***************************************************************************)
EXTENDS Integers, Sequences, FiniteSets, TLC

VARIABLES
    \* a normalisation run: the input tooltip and tree, and the results of one and two passes
    tooltip, max_len, ttree, once, twice, ttree1, ttree2, tpc,
    \* a rendered map: the tree, the flattened graph, the click and what it emitted
    tree, nodes, links, rootID, clicked, context, kpc,
    \* a label being wrapped: the label, its lines before and after the line budget
    label, wrapped, lines, wpc,
    \* the main script: the URL's query parameters, the session's state, the state
    \* it had when the latest run began, the topic of the run, the run's position,
    \* what the generation request returned, how the run ended, and the map shown
    query_params, session_state, before, topic, pc, gen_output, outcome, shown

truncVars == <<tooltip, max_len, ttree, once, twice, ttree1, ttree2, tpc>>
treeVars == <<tree, nodes, links, rootID, clicked, context, kpc>>
wrapVars == <<label, wrapped, lines, wpc>>
mainVars == <<query_params, session_state, before, topic, pc, gen_output, outcome, shown>>
vars == <<truncVars, treeVars, wrapVars, mainVars>>

\* ---------------------------------------------------------------- values

\* Python None / JSON null: a value that is no text.
None == <<"None">>

\* A dict key that is not present.
Absent == <<"Absent">>

\* The "..." marker both the truncation and the wrapping append.
Ellipsis == <<".", ".", ".">>

\* Characters str.strip() / String.prototype.trim() remove.
Whitespace == {" ", "\n", "\r", "\t"}

\* The value of a variable the specification at hand does not use.
Idle == <<"idle">>

\* No dive context was emitted.
NoContext ==
    [emitted |-> FALSE, clicked_label |-> None, clicked_tooltip |-> None,
     parent_label |-> None, parent_tooltip |-> None, root_label |-> None,
     root_tooltip |-> None]

TruncOff ==
    /\ tooltip = Idle /\ max_len = 0 /\ ttree = Idle /\ once = Idle /\ twice = Idle
    /\ ttree1 = Idle /\ ttree2 = Idle /\ tpc = "off"

TreeOff ==
    /\ tree = Idle /\ nodes = <<>> /\ links = <<>> /\ rootID = Idle /\ clicked = 0
    /\ context = NoContext /\ kpc = "off"

WrapOff == label = Idle /\ wrapped = <<>> /\ lines = <<>> /\ wpc = "off"

\* No generation request was answered in the run.
NoOutput == [whole |-> "none", braces |-> "none"]

MainOff ==
    /\ query_params = Idle /\ session_state = <<>> /\ before = <<>> /\ topic = Idle
    /\ pc = "off" /\ gen_output = NoOutput /\ outcome = "off" /\ shown = Idle

\* ---------------------------------------------------------------- bounds

\* Longest tooltip enumerated.
MaxTooltipLen == 5

\* Largest max_len enumerated.
MaxMaxLen == 4

\* Characters tooltips are drawn from.
TooltipChars == {"a", " ", "\n", "\r"}

Tooltips == UNION {[1..n -> TooltipChars] : n \in 0..MaxTooltipLen}

\* ---------------------------------------------------------------- text

Min(a, b) == IF a < b THEN a ELSE b

\* s.replace(from, to) for one-character from and to
Replace(s, from, to) == [i \in 1..Len(s) |-> IF s[i] = from THEN to ELSE s[i]]

\* s[:n] for n >= 0
Slice(s, n) == SubSeq(s, 1, Min(n, Len(s)))

RECURSIVE LStrip(_)
LStrip(s) == IF s # <<>> /\ Head(s) \in Whitespace THEN LStrip(Tail(s)) ELSE s

RECURSIVE RStrip(_)
RStrip(s) ==
    IF s # <<>> /\ s[Len(s)] \in Whitespace THEN RStrip(SubSeq(s, 1, Len(s) - 1)) ELSE s

\* s.strip() / s.trim()
Strip(s) == RStrip(LStrip(s))

\* s.rfind(ch): the 0-based index of the last ch in s, or -1
RFind(s, ch) ==
    LET hits == {i \in 1..Len(s) : s[i] = ch}
    IN  IF hits = {} THEN -1 ELSE (CHOOSE i \in hits : \A j \in hits : j <= i) - 1

\* dict.get(key, default) on a field that holds its value or Absent
Get(field, default) == IF field = Absent THEN default ELSE field

\* ---------------------------------------------------------------- truncate_tooltip

\* tooltip.replace("\n", " ").replace("\r", " ").strip()
Collapse(s) == Strip(Replace(Replace(s, "\n", " "), "\r", " "))

\* A slip: the cut is always made at max_len, no word boundary is looked for.
truncate_tooltip_hardcut(tip, maxlen) ==
    IF tip = None \/ tip = <<>> THEN <<>>
    ELSE LET t == Collapse(tip)
         IN  IF Len(t) <= maxlen THEN t ELSE Slice(t, maxlen) \o Ellipsis

\* A slip: the early return for a tooltip that already fits is missing.
truncate_tooltip_nocheck(tip, maxlen) ==
    IF tip = None \/ tip = <<>> THEN <<>>
    ELSE LET t == Collapse(tip)
             cutoff == RFind(Slice(t, maxlen), " ")
         IN  IF cutoff > 0 THEN Slice(t, cutoff) \o Ellipsis
             ELSE Slice(t, maxlen) \o Ellipsis

truncate_tooltip(tip, maxlen) ==
    IF tip = None \/ tip = <<>> THEN <<>>
    ELSE LET t == Collapse(tip)
         IN  IF Len(t) <= maxlen THEN t
             ELSE LET cutoff == RFind(Slice(t, maxlen), " ")
                  IN  IF cutoff > 0 THEN Slice(t, cutoff) \o Ellipsis
                      ELSE Slice(t, maxlen) \o Ellipsis

\* ---------------------------------------------------------------- trees

\* A tree is a heap: a function from 1..n to nodes [name, tooltip, children], the
\* root at index 1; children is [kind, list]: the key is "absent", its value is
\* "null", or it is a "list", the sequence of the child indices.

\* 'children' in tree and tree['children'] is not None
HasChildList(node) == node.children.kind = "list"

RECURSIVE process_children(_, _, _, _)
RECURSIVE process_tree_tooltips(_, _, _)

\* [process_tree_tooltips(child, max_len) for child in tree['children']]
process_children(heap, kids, k, maxlen) ==
    IF k > Len(kids) THEN heap
    ELSE process_children(process_tree_tooltips(heap, kids[k], maxlen), kids, k + 1, maxlen)

process_tree_tooltips(heap, i, maxlen) ==
    LET h1 == [heap EXCEPT ![i].tooltip = truncate_tooltip(Get(heap[i].tooltip, <<>>), maxlen)]
    IN  IF HasChildList(h1[i]) THEN process_children(h1, h1[i].children.list, 1, maxlen) ELSE h1

\* ---------------------------------------------------------------- tree inputs

\* Most nodes of an enumerated tree.
MaxNodes == 3

\* The values a leaf's 'children' can take: key missing, null, empty list.
LeafKinds == {"absent", "null", "empty"}

\* The parent of every non-root node, parents before children.
ParentMaps(n) == {p \in [2..n -> 1..n] : \A i \in 2..n : p[i] < i}

RECURSIVE Ascending(_)
Ascending(S) ==
    IF S = {} THEN <<>>
    ELSE LET m == CHOOSE x \in S : \A y \in S : x <= y IN <<m>> \o Ascending(S \ {m})

MakeHeap(n, p, nm, tp, lk) ==
    [i \in 1..n |->
        LET kids == {j \in 2..n : p[j] = i}
        IN  [name     |-> nm[i],
             tooltip  |-> tp[i],
             children |-> IF kids # {} THEN [kind |-> "list", list |-> Ascending(kids)]
                          ELSE IF lk[i] = "empty" THEN [kind |-> "list", list |-> <<>>]
                          ELSE [kind |-> lk[i], list |-> <<>>]]]

\* Every tree of n nodes with names from NameSet and tooltips from TipSet.
Heaps(n, NameSet, TipSet) ==
    {MakeHeap(n, p, nm, tp, lk) :
        p \in ParentMaps(n), nm \in [1..n -> NameSet], tp \in [1..n -> TipSet],
        lk \in [1..n -> LeafKinds]}

\* The trees the normalisation is run on: the tooltip on a single node, or on the
\* child of a root whose own tooltip is missing or null.
TruncTrees(tip) ==
    Heaps(1, {<<"A">>}, {tip})
        \cup {h \in Heaps(2, {<<"A">>}, {tip, Absent, None}) :
                h[1].tooltip # tip /\ h[2].tooltip = tip /\ h[2].children.kind = "absent"}

\* ---------------------------------------------------------------- normalisation runs

InitTrunc ==
    /\ TreeOff /\ WrapOff /\ MainOff
    /\ tooltip \in Tooltips
    /\ max_len \in 0..MaxMaxLen
    /\ ttree \in TruncTrees(tooltip)
    /\ once = Idle /\ twice = Idle /\ ttree1 = Idle /\ ttree2 = Idle
    /\ tpc = "input"

\* tree = process_tree_tooltips(tree, max_len), and truncate_tooltip on the tooltip alone
Normalize ==
    /\ tpc = "input"
    /\ once' = truncate_tooltip(tooltip, max_len)
    /\ ttree1' = process_tree_tooltips(ttree, 1, max_len)
    /\ tpc' = "once"
    /\ UNCHANGED <<tooltip, max_len, ttree, twice, ttree2, treeVars, wrapVars, mainVars>>

\* the same normalisation applied to its own result
NormalizeAgain ==
    /\ tpc = "once"
    /\ twice' = truncate_tooltip(once, max_len)
    /\ ttree2' = process_tree_tooltips(ttree1, 1, max_len)
    /\ tpc' = "twice"
    /\ UNCHANGED <<tooltip, max_len, ttree, once, ttree1, treeVars, wrapVars, mainVars>>

NextTrunc == Normalize \/ NormalizeAgain

SpecTrunc == InitTrunc /\ [][NextTrunc]_vars

\* ---------------------------------------------------------------- truncation properties

\* The newline-collapsed, trimmed input.
NormalTip == Collapse(tooltip)

\* Length of the first space-delimited word of t.
FirstWordLen(t) ==
    LET sp == {i \in 1..Len(t) : t[i] = " "}
    IN  IF sp = {} THEN Len(t) ELSE (CHOOSE i \in sp : \A j \in sp : i <= j) - 1

\* The prefix of length k of t ends inside a word: a word character on both sides of the cut.
MidWord(t, k) == k >= 1 /\ k < Len(t) /\ t[k] # " " /\ t[k + 1] # " "

\* C1: the truncated tooltip is at most max_len + 3 long, and when the input was
\* cut, the text before the "..." marker is a prefix of the collapsed, trimmed
\* input that does not end inside a word, unless the first word alone is longer
\* than max_len.
C1_TruncationBound ==
    tpc # "input" =>
        /\ Len(once) <= max_len + 3
        /\ \A i \in DOMAIN ttree1 : Len(ttree1[i].tooltip) <= max_len + 3
        /\ Len(NormalTip) > max_len =>
              LET k == Len(once) - 3
              IN  /\ k >= 0
                  /\ SubSeq(once, 1, k) = SubSeq(NormalTip, 1, k)
                  /\ SubSeq(once, k + 1, k + 3) = Ellipsis
                  /\ MidWord(NormalTip, k) => FirstWordLen(NormalTip) > max_len

\* A tooltip of several words was cut at a word boundary, dropping a later word.
C1_Witness ==
    /\ tpc = "once"
    /\ Len(NormalTip) > max_len
    /\ Len(once) > 3
    /\ Len(once) - 3 < max_len
    /\ FirstWordLen(NormalTip) <= max_len

\* C2 as stated: normalising twice gives the same tooltips as normalising once.
C2_Idempotent == tpc = "twice" => twice = once /\ ttree2 = ttree1

\* C2 amended: a second normalisation leaves unchanged every tooltip the first one
\* left at most max_len long (with or without the marker), keeps every name and
\* child list, and keeps every tooltip within max_len + 3; a tooltip the first
\* pass left longer than max_len may be cut again.
C2_IdempotentWhenFits ==
    tpc = "twice" =>
        /\ Len(once) <= max_len => twice = once
        /\ Len(twice) <= max_len + 3
        /\ DOMAIN ttree2 = DOMAIN ttree1
        /\ \A i \in DOMAIN ttree1 :
              /\ ttree2[i].name = ttree1[i].name
              /\ ttree2[i].children = ttree1[i].children
              /\ Len(ttree2[i].tooltip) <= max_len + 3
              /\ Len(ttree1[i].tooltip) <= max_len => ttree2[i].tooltip = ttree1[i].tooltip

\* A tooltip was cut and marked by the first pass, still fits max_len, and went
\* through the second pass.
C2_Witness ==
    /\ tpc = "twice"
    /\ Len(NormalTip) > max_len
    /\ Len(once) <= max_len
    /\ \E i \in DOMAIN ttree1 : ttree1[i].tooltip = once

\* ---------------------------------------------------------------- flatten_tree_to_nodes_links

\* Python truthiness of a name: neither None nor the empty string.
Truthy(x) == x # None /\ x # <<>>

\* tree.get("name"): None when the key is missing
NameOf(node) == Get(node.name, None)

\* tree.get("children", []) or []
ChildList(node) == IF node.children.kind = "list" THEN node.children.list ELSE <<>>

RECURSIVE flatten_children(_, _, _, _, _, _)
RECURSIVE flatten_tree_to_nodes_links(_, _, _, _, _)

\* for child in ...: flatten_tree_to_nodes_links(child, this_id, tooltip, nodes, links)
flatten_children(heap, kids, k, this_id, tip, acc) ==
    IF k > Len(kids) THEN acc
    ELSE flatten_children(heap, kids, k + 1, this_id, tip,
                          flatten_tree_to_nodes_links(heap, kids[k], this_id, tip, acc))

\* acc is <<nodes, links>>, the two lists the calls share; an entry's "type" and
\* "group" fields, which no handler modelled here reads, are left out
flatten_tree_to_nodes_links(heap, i, parent_name, parent_tooltip, acc) ==
    LET this_id == NameOf(heap[i])
        tip == Get(heap[i].tooltip, <<>>)
        nodes1 == Append(acc[1], [id |-> this_id, tooltip |-> tip,
                                  parent |-> parent_name, parent_tooltip |-> parent_tooltip])
        links1 == IF Truthy(parent_name)
                  THEN Append(acc[2], [source |-> parent_name, target |-> this_id])
                  ELSE acc[2]
    IN  flatten_children(heap, ChildList(heap[i]), 1, this_id, tip, <<nodes1, links1>>)

\* ---------------------------------------------------------------- the rendered map

\* max_len the main script normalises with
TooltipMax == 120

\* tree.get("name", "Root"), written into the page as rootID
CenterTitle(heap) == Get(heap[1].name, <<"R", "o", "o", "t">>)

\* nodes.find(n => n.id === rootID)?.tooltip || ""
RootTooltip(ns, rid) ==
    LET hits == {k \in 1..Len(ns) : ns[k].id = rid}
    IN  IF hits = {} THEN <<>>
        ELSE LET first == CHOOSE k \in hits : \A j \in hits : k <= j
             IN  IF ns[first].tooltip = None THEN <<>> ELSE ns[first].tooltip

\* the click handler of a node circle, d the datum of the clicked circle
ClickContext(d, ns, rid) ==
    IF d.id = rid THEN NoContext
    ELSE LET contextObj ==
                 [emitted |-> TRUE,
                  clicked_label |-> d.id,
                  clicked_tooltip |-> d.tooltip,
                  parent_label |-> d.parent,
                  parent_tooltip |-> d.parent_tooltip,
                  root_label |-> rid,
                  root_tooltip |-> RootTooltip(ns, rid)]
         IN  IF d.parent = rid
             THEN [contextObj EXCEPT !.parent_label = <<>>, !.parent_tooltip = <<>>]
             ELSE contextObj

\* Names and tooltips of the enumerated trees.  Names may repeat, be empty or be
\* missing: the tree is whatever JSON object the model output holds.
TreeNames == {Absent, <<>>, <<"A">>, <<"B">>}
TreeTips == {Absent, <<"a">>, <<"b">>}

InitTree ==
    /\ TruncOff /\ WrapOff /\ MainOff
    /\ \E n \in 1..MaxNodes :
          \E p \in ParentMaps(n), nm \in [1..n -> TreeNames], tp \in [1..n -> TreeTips],
             lk \in [1..n -> LeafKinds] :
              tree = MakeHeap(n, p, nm, tp, lk)
    /\ nodes = <<>> /\ links = <<>> /\ rootID = Idle /\ clicked = 0
    /\ context = NoContext
    /\ kpc = "tree"

\* tree = process_tree_tooltips(tree, max_len=120);
\* create_multilevel_mindmap_html(tree, center_title=tree.get("name", "Root"))
Render ==
    /\ kpc = "tree"
    /\ LET t == process_tree_tooltips(tree, 1, TooltipMax)
           flat == flatten_tree_to_nodes_links(t, 1, None, None, <<<<>>, <<>>>>)
       IN  /\ tree' = t
           /\ nodes' = flat[1]
           /\ links' = flat[2]
           /\ rootID' = CenterTitle(t)
    /\ kpc' = "map"
    /\ UNCHANGED <<clicked, context, truncVars, wrapVars, mainVars>>

\* a click on the k-th circle of the map
Click(k) ==
    /\ kpc = "map"
    /\ clicked' = k
    /\ context' = ClickContext(nodes[k], nodes, rootID)
    /\ kpc' = "clicked"
    /\ UNCHANGED <<tree, nodes, links, rootID, truncVars, wrapVars, mainVars>>

NextTree == Render \/ \E k \in 1..Len(nodes) : Click(k)

SpecTree == InitTree /\ [][NextTree]_vars

\* ---------------------------------------------------------------- flattening and click properties

RECURSIVE PreOrderKids(_, _, _)
RECURSIVE PreOrder(_, _)

PreOrderKids(heap, kids, k) ==
    IF k > Len(kids) THEN <<>>
    ELSE PreOrder(heap, kids[k]) \o PreOrderKids(heap, kids, k + 1)

\* The tree nodes reachable from node i, depth first, a node before its children.
PreOrder(heap, i) == <<i>> \o PreOrderKids(heap, ChildList(heap[i]), 1)

\* The parent of the non-root tree node j.
ParentIdx(heap, j) ==
    CHOOSE i \in DOMAIN heap : \E k \in 1..Len(ChildList(heap[i])) : ChildList(heap[i])[k] = j

\* The tree node the k-th node entry was emitted for.
TreeNodeOf(k) == PreOrder(tree, 1)[k]

\* C3: one node entry per tree node reachable from the root, and one link per
\* non-root node, nodeCount - 1 links in all.
C3_NodeAndLinkCount ==
    kpc # "tree" =>
        /\ Len(nodes) = Len(PreOrder(tree, 1))
        /\ Len(links) = Len(nodes) - 1

\* C4: the root's entry is first and has parent null; every other entry carries
\* the name and tooltip of its actual parent, and the link emitted for it is
\* {source: parent name, target: own name}.
C4_ParentFields ==
    kpc # "tree" =>
        /\ nodes[1].id = NameOf(tree[1])
        /\ nodes[1].parent = None
        /\ \A k \in 2..Len(nodes) :
              LET j == TreeNodeOf(k)
                  pj == ParentIdx(tree, j)
              IN  /\ nodes[k].id = NameOf(tree[j])
                  /\ nodes[k].parent = NameOf(tree[pj])
                  /\ nodes[k].parent_tooltip = tree[pj].tooltip
                  /\ Len(links) >= k - 1
                  /\ links[k - 1] = [source |-> NameOf(tree[pj]), target |-> NameOf(tree[j])]

\* C5: a click on the root's circle emits no dive context, a click on any other
\* circle emits one, whatever the names in the tree.
C5_RootClickOnly ==
    kpc = "clicked" => (context.emitted <=> TreeNodeOf(clicked) # 1)

\* C9: the context emitted for a click on a non-root node d carries d's name and
\* tooltip, the root's name and tooltip, and d's parent's name and tooltip, the
\* last two blank when d's parent is the root.
C9_ContextFields ==
    (kpc = "clicked" /\ TreeNodeOf(clicked) # 1) =>
        LET j == TreeNodeOf(clicked)
            pj == ParentIdx(tree, j)
        IN  /\ context.emitted
            /\ context.clicked_label = NameOf(tree[j])
            /\ context.clicked_tooltip = tree[j].tooltip
            /\ context.root_label = NameOf(tree[1])
            /\ context.root_tooltip = tree[1].tooltip
            /\ context.parent_label = (IF pj = 1 THEN <<>> ELSE nodes[clicked].parent)
            /\ context.parent_tooltip = (IF pj = 1 THEN <<>> ELSE nodes[clicked].parent_tooltip)

\* ---------------------------------------------------------------- label wrapping

maxChars == 16
maxLines == 4

\* Most words of an enumerated label.
MaxWords == 5

\* Lengths of the words labels are built from; 0 is the empty word between two spaces.
WordLens == {0, 1, 8, 16, 17}

\* A word of n letters.
Word(n) == [i \in 1..n |-> "a"]

RECURSIVE Join(_)
\* The words joined by single spaces.
Join(ws) ==
    IF Len(ws) = 0 THEN <<>>
    ELSE IF Len(ws) = 1 THEN ws[1]
    ELSE ws[1] \o <<" ">> \o Join(Tail(ws))

RECURSIVE Split(_, _)
\* label.split(' '), cur the word being read
Split(s, cur) ==
    IF s = <<>> THEN <<cur>>
    ELSE IF Head(s) = " " THEN <<cur>> \o Split(Tail(s), <<>>)
    ELSE Split(Tail(s), Append(cur, Head(s)))

RECURSIVE WrapWords(_, _, _, _)
\* words.forEach(...), then the push of what is left in current
WrapWords(words, k, current, acc) ==
    IF k > Len(words)
    THEN IF Strip(current) # <<>> THEN Append(acc, Strip(current)) ELSE acc
    ELSE IF Len(Strip(current \o <<" ">> \o words[k])) > maxChars
         THEN WrapWords(words, k + 1, words[k], Append(acc, Strip(current)))
         ELSE WrapWords(words, k + 1, current \o <<" ">> \o words[k], acc)

\* the lines before the line budget is applied
WrapLabel(s) == WrapWords(Split(s, <<>>), 1, <<>>, <<>>)

\* A slip: the marker is appended as soon as the line budget is reached.
ClipLines_eager(ls) ==
    IF Len(ls) >= maxLines
    THEN [i \in 1..maxLines |-> IF i = maxLines THEN ls[i] \o Ellipsis ELSE ls[i]]
    ELSE ls

\* if (lines.length > maxLines) { lines = lines.slice(0, maxLines); lines[maxLines - 1] += "..." }
ClipLines(ls) ==
    IF Len(ls) > maxLines
    THEN [i \in 1..maxLines |-> IF i = maxLines THEN ls[i] \o Ellipsis ELSE ls[i]]
    ELSE ls

InitWrap ==
    /\ TruncOff /\ TreeOff /\ MainOff
    /\ \E n \in 1..MaxWords : \E ls \in [1..n -> WordLens] :
          label = Join([i \in 1..n |-> Word(ls[i])])
    /\ wrapped = <<>> /\ lines = <<>>
    /\ wpc = "label"

\* the word loop of the text callback
Wrap ==
    /\ wpc = "label"
    /\ wrapped' = WrapLabel(label)
    /\ wpc' = "wrapped"
    /\ UNCHANGED <<label, lines, truncVars, treeVars, mainVars>>

\* the line budget of the text callback; the lines are then drawn as tspans
Clip ==
    /\ wpc = "wrapped"
    /\ lines' = ClipLines(wrapped)
    /\ wpc' = "drawn"
    /\ UNCHANGED <<label, wrapped, truncVars, treeVars, mainVars>>

NextWrap == Wrap \/ Clip

SpecWrap == InitWrap /\ [][NextWrap]_vars

\* The line without a trailing "..." marker (labels hold no "." of their own).
Unmarked(line) ==
    IF Len(line) >= 3 /\ SubSeq(line, Len(line) - 2, Len(line)) = Ellipsis
    THEN SubSeq(line, 1, Len(line) - 3) ELSE line

Marked(line) == Unmarked(line) # line

HasSpace(line) == \E i \in 1..Len(line) : line[i] = " "

\* C10 as stated: at most maxLines lines, each at most maxChars characters before
\* the marker, and the marker is on the last line exactly when the wrapped label
\* needed more than maxLines lines.
C10_WrapBudget ==
    wpc = "drawn" =>
        /\ Len(lines) <= maxLines
        /\ \A i \in 1..Len(lines) : Len(Unmarked(lines[i])) <= maxChars
        /\ \A i \in 1..Len(lines) : Marked(lines[i]) <=> (i = Len(lines) /\ Len(wrapped) > maxLines)

\* C10 amended: at most maxLines lines; a line holds more than maxChars characters
\* before the marker only when it is a single word longer than maxChars; the
\* marker is on the last line exactly when the wrapping gave more than maxLines lines.
C10_WrapBudgetWords ==
    wpc = "drawn" =>
        /\ Len(lines) <= maxLines
        /\ \A i \in 1..Len(lines) :
              Len(Unmarked(lines[i])) > maxChars => ~HasSpace(Unmarked(lines[i]))
        /\ \A i \in 1..Len(lines) : Marked(lines[i]) <=> (i = Len(lines) /\ Len(wrapped) > maxLines)

\* A label that wrapped to more than maxLines lines, one of them a long single word,
\* was clipped and marked.
C10_Witness ==
    /\ wpc = "drawn"
    /\ Len(wrapped) > maxLines
    /\ Marked(lines[maxLines])
    /\ \E i \in 1..Len(lines) : Len(Unmarked(lines[i])) > maxChars

\* ---------------------------------------------------------------- the main script

\* Topic texts, as token sequences: "", " ", "x" and "cit_x".
Topics == {<<>>, <<" ">>, <<"x">>, <<"cit_", "x">>}

\* Values of the context query parameter: none, or some text.
Contexts == {<<>>, <<"x">>}

\* What condense_bubble_context can return: the first line of stripped text.
CondensedTopics == {t \in Topics : t = <<>> \/ Head(t) \notin Whitespace}

\* The text input left as the script filled it.
Untouched == <<"untouched">>

\* not topic or not topic.strip()
Blank(t) == t = <<>> \/ Strip(t) = <<>>

\* The five session keys of a topic, f"sparkmap_{topic}" and so on.
ss_key(t) == <<"sparkmap_">> \o t
ss_cit_key(t) == <<"sparkmap_", "cit_">> \o t
ss_html_key(t) == <<"sparkmap_", "html_">> \o t
ss_txt_key(t) == <<"sparkmap_", "txt_">> \o t
ss_time_key(t) == <<"sparkmap_", "time_">> \o t

TopicKeys(t) == {ss_key(t), ss_cit_key(t), ss_html_key(t), ss_txt_key(t), ss_time_key(t)}

\* st.session_state[k] = v
Put(ss, k, v) == [x \in DOMAIN ss \cup {k} |-> IF x = k THEN v ELSE ss[x]]

\* The model's answers.  whole is what json.loads(raw) gives: "invalid" when it
\* raises, else the value: "null", "empty" ({}), "list" (a non-empty non-dict),
\* "named" (a tree whose root has a name), "unnamed" (a tree whose root has none).
\* braces is the same for the text from the first "{" to the last "}", or
\* "nomatch" when the pattern finds none.  An answer without a message item
\* leaves output_text "", which is [invalid, nomatch].
OutputTexts ==
    {[whole |-> w, braces |-> "nomatch"] : w \in {"null", "empty", "list", "named", "unnamed"}}
        \cup {[whole |-> "invalid", braces |-> b] :
                b \in {"nomatch", "invalid", "empty", "named", "unnamed"}}

\* client.responses.create raised
Raised == [whole |-> "exception", braces |-> "exception"]

robust_json_extract(raw) ==
    IF raw.whole # "invalid" THEN raw.whole
    ELSE IF raw.braces \in {"nomatch", "invalid"} THEN "null"
    ELSE raw.braces

\* not tree
Falsy(t) == t \in {"null", "empty"}

\* The tree a parsed answer holds.
GenTree(kind) ==
    <<[name |-> IF kind = "named" THEN <<"A">> ELSE Absent,
       tooltip |-> <<"a">>,
       children |-> [kind |-> "list", list |-> <<2>>]],
      [name |-> <<"B">>, tooltip |-> Absent, children |-> [kind |-> "absent", list |-> <<>>]]>>

\* The page create_multilevel_mindmap_html builds, told apart by its rootID and node count.
MindmapHtml(t) ==
    LET flat == flatten_tree_to_nodes_links(t, 1, None, None, <<<<>>, <<>>>>)
    IN  <<"html">> \o CenterTitle(t) \o [i \in 1..Len(flat[1]) |-> "node"]

\* lines 425-431: the five entries are read back and the map is shown; a missing
\* entry is a KeyError
Display(ss, t) ==
    IF TopicKeys(t) \subseteq DOMAIN ss
    THEN [outcome |-> "shown", shown |-> ss[ss_key(t)]]
    ELSE [outcome |-> "crash", shown |-> Idle]

\* lines 419-423
StoreAll(ss, t, html) ==
    Put(Put(Put(Put(Put(ss, ss_key(t), html), ss_cit_key(t), <<"citations">>),
                ss_html_key(t), <<"file">> \o html), ss_txt_key(t), <<"txt">>),
        ss_time_key(t), <<"time">>)

InitMain ==
    /\ TruncOff /\ TreeOff /\ WrapOff
    /\ query_params \in [context : Contexts, concept : Topics]
    /\ session_state = <<>>
    /\ before = <<>>
    /\ topic = <<>>
    /\ pc = "idle"
    /\ gen_output = NoOutput
    /\ outcome = "none"
    /\ shown = Idle

\* The page is opened at a URL (typed, or set by a click on the map): a new session.
OpenUrl(ctx, concept) ==
    /\ pc = "idle"
    /\ query_params' = [context |-> ctx, concept |-> concept]
    /\ session_state' = <<>>
    /\ UNCHANGED <<before, topic, pc, gen_output, outcome, shown>>
    /\ UNCHANGED <<truncVars, treeVars, wrapVars>>

\* "Start a New SparkMap": st.query_params.clear(); st.rerun()
ResetButton ==
    /\ pc = "idle"
    /\ query_params' = [context |-> <<>>, concept |-> <<>>]
    /\ UNCHANGED <<session_state, before, topic, pc, gen_output, outcome, shown>>
    /\ UNCHANGED <<truncVars, treeVars, wrapVars>>

\* lines 345-362: the topic from the query parameters; condensed is the answer of
\* condense_bubble_context, ok whether parsing the context and the call succeeded
RunStart(condensed, ok) ==
    /\ pc = "idle"
    /\ topic' = IF query_params.context # <<>>
                THEN (IF ok THEN condensed ELSE query_params.context)
                ELSE query_params.concept
    /\ before' = session_state
    /\ gen_output' = NoOutput
    /\ outcome' = "running"
    /\ shown' = Idle
    /\ pc' = "input"
    /\ UNCHANGED <<query_params, session_state>>
    /\ UNCHANGED <<truncVars, treeVars, wrapVars>>

\* lines 364-378: the text input, typed what the user entered in it (Untouched:
\* nothing); then the cache lookup, which ends the run or issues the generation request
TopicInput(typed) ==
    /\ pc = "input"
    /\ LET value == IF Blank(topic) THEN <<>> ELSE topic
           t == IF typed = Untouched THEN value ELSE typed
       IN  /\ topic' = t
           /\ IF Blank(topic) /\ Strip(t) = <<>>
              THEN pc' = "idle" /\ outcome' = "info" /\ shown' = Idle
              ELSE IF ss_key(t) \notin DOMAIN session_state
              THEN pc' = "generating" /\ UNCHANGED <<outcome, shown>>
              ELSE /\ pc' = "idle"
                   /\ outcome' = Display(session_state, t).outcome
                   /\ shown' = Display(session_state, t).shown
    /\ UNCHANGED <<query_params, session_state, before, gen_output>>
    /\ UNCHANGED <<truncVars, treeVars, wrapVars>>

\* lines 382-431: the answer to the generation request, out the output text or Raised
GenerationResult(out) ==
    /\ pc = "generating"
    /\ gen_output' = out
    /\ pc' = "idle"
    /\ IF out = Raised
       THEN outcome' = "gen_error" /\ UNCHANGED <<session_state, shown>>
       ELSE LET t == robust_json_extract(out)
            IN  IF Falsy(t)
                THEN outcome' = "no_tree" /\ UNCHANGED <<session_state, shown>>
                ELSE IF t = "list"
                THEN outcome' = "crash" /\ UNCHANGED <<session_state, shown>>
                ELSE LET tr == process_tree_tooltips(GenTree(t), 1, TooltipMax)
                         ss == StoreAll(session_state, topic, MindmapHtml(tr))
                     IN  /\ session_state' = ss
                         /\ outcome' = Display(ss, topic).outcome
                         /\ shown' = Display(ss, topic).shown
    /\ UNCHANGED <<query_params, before, topic>>
    /\ UNCHANGED <<truncVars, treeVars, wrapVars>>

NextMain ==
    \/ \E ctx \in Contexts, concept \in Topics : OpenUrl(ctx, concept)
    \/ ResetButton
    \/ \E condensed \in CondensedTopics, ok \in BOOLEAN : RunStart(condensed, ok)
    \/ \E typed \in Topics \cup {Untouched} : TopicInput(typed)
    \/ \E out \in OutputTexts \cup {Raised} : GenerationResult(out)

SpecMain == InitMain /\ [][NextMain]_vars

\* ---------------------------------------------------------------- main script properties

\* st.error was called, or the run died of an exception Streamlit displays.
ErrorShown == outcome \in {"gen_error", "no_tree", "crash"}

\* The answer held no usable tree: nothing parsed, or the root has no name.
Malformed(raw) == robust_json_extract(raw) \in {"null", "empty", "unnamed"}

\* C6: for every topic the five session entries are all present or all absent, and
\* a run whose generation call failed or gave no tree left the session state as
\* it was and showed an error.
C6_AllOrNothing ==
    /\ \A t \in Topics :
          TopicKeys(t) \subseteq DOMAIN session_state
              \/ TopicKeys(t) \cap DOMAIN session_state = {}
    /\ outcome \in {"gen_error", "no_tree"} => session_state = before /\ ErrorShown

\* C7: the generation request is never in flight for an empty or whitespace-only topic.
C7_NoBlankGeneration == pc = "generating" => Strip(topic) # <<>>

\* C8: a run whose generation answer was malformed ended with an error, showed no
\* map and wrote nothing to the session state.
C8_MalformedFatal ==
    (pc = "idle" /\ gen_output \in OutputTexts /\ Malformed(gen_output)) =>
        /\ ErrorShown
        /\ shown = Idle
        /\ session_state = before

====
